---- MODULE Spec2Model ----
(***************************************************************************)
(* A model of skills/guideline-refresher/refresh_guidelines.py: the        *)
(* command-line entry point main(), the GuidelineRefresher pipeline        *)
(* (history analysis, review analysis, file survey, rendering,             *)
(* persistence) and the files it keeps under .claude/.                     *)
(***************************************************************************)
EXTENDS Integers, Sequences, FiniteSets, TLC

VARIABLES
    argv,       \* the command line of the current process
    env,        \* what the process's collaborators answer (git, gh, files)
    pc,         \* the position of the current process in main() / run()
    exit_code,  \* the exit status of the process, NoExit while it runs
    raised,     \* the exception or exit cause that ended the process
    config,     \* self.config
    metrics,    \* self.metrics (a Counter: only the keys that were set)
    findings,   \* self.findings (only the keys that were set)
    guidelines, \* the local `guidelines` of run(): the rendered document
    fs,         \* the files under .claude/: guidelines, backups, reports
    clock,      \* datetime.now(), in seconds
    runs,       \* the number of processes (or direct calls) started so far
    hist        \* history: how the previous process ended, the documents saved, the reports made

vars == <<argv, env, pc, exit_code, raised, config, metrics, findings,
          guidelines, fs, clock, runs, hist>>

(***************************************************************************)
(* Bounds of the model.                                                    *)
(***************************************************************************)
MaxRuns == 2
MaxClock == 2
MaxRecursion == 3
MaxCalls == 3
MaxDocCommits == 1
MaxCommits == 3
MaxFiles == 6

(***************************************************************************)
(* Text: Python's str operations on TLA+ strings.                          *)
(***************************************************************************)
RECURSIVE Lower(_)

UpperToLower ==
    [c \in {"A","B","C","D","E","F","G","H","I","J","K","L","M","N","O","P",
            "Q","R","S","T","U","V","W","X","Y","Z"} |->
        CASE c = "A" -> "a" [] c = "B" -> "b" [] c = "C" -> "c" [] c = "D" -> "d"
          [] c = "E" -> "e" [] c = "F" -> "f" [] c = "G" -> "g" [] c = "H" -> "h"
          [] c = "I" -> "i" [] c = "J" -> "j" [] c = "K" -> "k" [] c = "L" -> "l"
          [] c = "M" -> "m" [] c = "N" -> "n" [] c = "O" -> "o" [] c = "P" -> "p"
          [] c = "Q" -> "q" [] c = "R" -> "r" [] c = "S" -> "s" [] c = "T" -> "t"
          [] c = "U" -> "u" [] c = "V" -> "v" [] c = "W" -> "w" [] c = "X" -> "x"
          [] c = "Y" -> "y" [] c = "Z" -> "z"]

IsUpperChar(c) == c \in DOMAIN UpperToLower

IsLowerChar(c) == c \in {UpperToLower[u] : u \in DOMAIN UpperToLower}

CharAt(s, i) == SubSeq(s, i, i)

\* str.lower(), character by character (the string is halved to keep the
\* evaluation shallow)
Lower(s) ==
    IF Len(s) = 0 THEN ""
    ELSE IF Len(s) = 1
    THEN (IF IsUpperChar(s) THEN UpperToLower[s] ELSE s)
    ELSE LET half == Len(s) \div 2
         IN Lower(SubSeq(s, 1, half)) \o Lower(SubSeq(s, half + 1, Len(s)))

\* `kw in s` for two strings
Contains(s, kw) ==
    \E i \in 1..(Len(s) - Len(kw) + 1) : SubSeq(s, i, i + Len(kw) - 1) = kw

\* any(kw in s for kw in keywords)
AnyIn(s, keywords) == \E kw \in keywords : Contains(s, kw)

\* str.islower(): at least one cased character and no upper-case one
IsLower(s) ==
    /\ \E i \in 1..Len(s) : IsLowerChar(CharAt(s, i))
    /\ \A i \in 1..Len(s) : ~IsUpperChar(CharAt(s, i))

\* dict.get(k, default)
Get(d, k, default) == IF k \in DOMAIN d THEN d[k] ELSE default

EmptyDict == [x \in {} |-> 0]

(***************************************************************************)
(* Configuration.                                                          *)
(***************************************************************************)
Depths == {"quick", "standard", "deep"}

\* the built-in configuration _load_config returns
DefaultConfig ==
    [analysis_depth |->
        [d \in Depths |->
            CASE d = "quick" ->
                    [pr_limit |-> 20, commit_days |-> 30, min_pattern_frequency |-> 3]
              [] d = "standard" ->
                    [pr_limit |-> 50, commit_days |-> 90, min_pattern_frequency |-> 5]
              [] d = "deep" ->
                    [pr_limit |-> 100, commit_days |-> 180, min_pattern_frequency |-> 3]],
     output_format |->
        [guidelines_file |-> ".claude/guidelines/{area}.md",
         report_file |-> ".claude/reports/guideline-refresh-{date}.md",
         backup_previous |-> TRUE]]

\* a config.json that json.load accepts: two presets of its own, no "deep"
CustomConfig ==
    [analysis_depth |->
        [d \in {"quick", "standard"} |->
            [pr_limit |-> 10, commit_days |-> 7, min_pattern_frequency |-> 2]],
     output_format |->
        [guidelines_file |-> ".claude/guidelines/{area}.md",
         report_file |-> ".claude/reports/guideline-refresh-{date}.md",
         backup_previous |-> FALSE]]

NoConfig == [analysis_depth |-> EmptyDict]

\* The outcome of _load_config(config_path): <<"ok", config>> or
\* <<"raise", exception>>.  config_path is None, or the string argparse
\* stored for --config (a str has no .exists()).  With None the path is the
\* config.json beside the script, a pathlib.Path.
_load_config(config_path, sibling) ==
    IF config_path = "none"
    THEN CASE sibling = "absent" -> <<"ok", DefaultConfig>>
           [] sibling = "custom" -> <<"ok", CustomConfig>>
           [] sibling = "malformed" -> <<"raise", "JSONDecodeError">>
    ELSE <<"raise", "AttributeError">>

(***************************************************************************)
(* History analysis (analyze_git_history).                                 *)
(***************************************************************************)
RefactorKeywords == {"refactor", "improve", "update", "migrate", "modernize"}

Techs == {"typescript", "react", "vue", "testing", "async", "performance"}

tech_keywords ==
    [t \in Techs |->
        CASE t = "typescript" -> {"typescript", "ts", ".tsx"}
          [] t = "react" -> {"react", "jsx", "hook", "component"}
          [] t = "vue" -> {"vue", "composition", "vue3"}
          [] t = "testing" -> {"test", "spec", "jest", "vitest", "cypress"}
          [] t = "async" -> {"async", "await", "promise"}
          [] t = "performance" -> {"performance", "optimize", "lazy", "memo"}]

TechKey(t) == "tech_" \o t

\* the position of the first c in s, 0 when there is none
FirstIndex(s, c) ==
    IF \E i \in 1..Len(s) : CharAt(s, i) = c
    THEN CHOOSE i \in 1..Len(s) :
            /\ CharAt(s, i) = c
            /\ \A j \in 1..(i - 1) : CharAt(s, j) /= c
    ELSE 0

\* commit.split(' ', 1)[1] if ' ' in commit else commit
CommitMessage(commit) ==
    LET i == FirstIndex(commit, " ")
    IN IF i > 0 THEN SubSeq(commit, i + 1, Len(commit)) ELSE commit

\* [line for line in result.stdout.strip().split('\n') if line]
CommitLines(lines) == SelectSeq(lines, LAMBDA l : l /= "")

\* the refactor test of one message
IsRefactor(message) == AnyIn(Lower(message), RefactorKeywords)

TechHitCaseSensitive(message, tech) == AnyIn(message, tech_keywords[tech])

\* the technology test of one message: any(kw in message_lower ...)
TechHit(message, tech) == AnyIn(Lower(message), tech_keywords[tech])

\* self.metrics[f'tech_{tech}'] += 1 for every technology the message hits
IncTech(m, message) ==
    LET hit == {TechKey(t) : t \in {u \in Techs : TechHit(message, u)}}
    IN [k \in DOMAIN m \cup hit |->
            Get(m, k, 0) + (IF k \in hit THEN 1 ELSE 0)]

\* the loop over the commits: <<metrics, refactor_commits>>
RECURSIVE HistoryLoop(_, _, _)
HistoryLoop(commits, m, refactors) ==
    IF commits = <<>> THEN <<m, refactors>>
    ELSE LET message == CommitMessage(Head(commits))
             r2 == IF IsRefactor(message)
                   THEN Append(refactors, [message |-> message, type |-> "refactor"])
                   ELSE refactors
         IN HistoryLoop(Tail(commits), IncTech(m, message), r2)

\* dict assignment d[k] = v
Put(d, k, v) == [x \in DOMAIN d \cup {k} |-> IF x = k THEN v ELSE d[x]]

(***************************************************************************)
(* Ordered dictionaries (dict, Counter): sequences of [k, v] in insertion  *)
(* order.                                                                  *)
(***************************************************************************)
OKeys(od) == {od[i].k : i \in DOMAIN od}

OGet(od, key, default) ==
    IF key \in OKeys(od)
    THEN (od[CHOOSE i \in DOMAIN od : od[i].k = key]).v
    ELSE default

\* counter[key] += 1
OInc(od, key) ==
    IF key \in OKeys(od)
    THEN [i \in DOMAIN od |->
            IF od[i].k = key THEN [k |-> key, v |-> od[i].v + 1] ELSE od[i]]
    ELSE Append(od, [k |-> key, v |-> 1])

RECURSIVE OSum(_)
OSum(od) == IF od = <<>> THEN 0 ELSE Head(od).v + OSum(Tail(od))

\* od without its i-th item
Without(od, i) == SubSeq(od, 1, i - 1) \o SubSeq(od, i + 1, Len(od))

\* the index of the first item with the largest value: max(items, key=...)
FirstMax(od) ==
    CHOOSE i \in DOMAIN od :
        /\ \A j \in DOMAIN od : od[j].v <= od[i].v
        /\ \A j \in 1..(i - 1) : od[j].v < od[i].v

\* sorted(items, key=value, reverse=True): stable, ties in insertion order
RECURSIVE SortedDesc(_)
SortedDesc(od) ==
    IF od = <<>> THEN <<>>
    ELSE LET i == FirstMax(od) IN <<od[i]>> \o SortedDesc(Without(od, i))

\* seq[:n]
Take(seq, n) == SubSeq(seq, 1, IF Len(seq) < n THEN Len(seq) ELSE n)

\* dict(counter.most_common(n))
MostCommon(od, n) == Take(SortedDesc(od), n)

(***************************************************************************)
(* Review analysis (analyze_pr_reviews).                                   *)
(***************************************************************************)
Area == "lib"

ThemeOrder ==
    <<"code_organization", "type_safety", "testing", "performance",
      "error_handling", "naming", "documentation", "accessibility">>

Themes == {ThemeOrder[i] : i \in DOMAIN ThemeOrder}

theme_patterns ==
    [t \in Themes |->
        CASE t = "code_organization" ->
                {"structure", "organize", "directory", "folder", "separate", "split"}
          [] t = "type_safety" -> {"type", "typescript", "interface", "any", "unknown"}
          [] t = "testing" ->
                {"test", "coverage", "jest", "spec", "unit test", "integration test"}
          [] t = "performance" ->
                {"performance", "optimize", "slow", "cache", "memo", "lazy"}
          [] t = "error_handling" -> {"error", "exception", "catch", "try", "throw"}
          [] t = "naming" -> {"naming", "rename", "name is", "called", "variable name"}
          [] t = "documentation" -> {"document", "comment", "readme", "docs", "jsdoc"}
          [] t = "accessibility" -> {"accessibility", "a11y", "aria", "screen reader"}]

MaxSamples == 5
SampleChars == 300
TopThemes == 10

FeedbackKey(theme) == theme \o "_feedback"

\* the PRs whose files touch the area: any(self.area in f.get('path', ''))
RelevantPrs(prs) ==
    SelectSeq(prs, LAMBDA pr :
        \E i \in DOMAIN pr.files : Contains(pr.files[i], Area))

\* the review bodies the loops visit, in order, empty bodies skipped
RECURSIVE ReviewBodies(_)
ReviewBodies(prs) ==
    IF prs = <<>> THEN <<>>
    ELSE SelectSeq(Head(prs).reviews, LAMBDA b : b /= "")
            \o ReviewBodies(Tail(prs))

ThemeHit(body, theme) == AnyIn(Lower(body), theme_patterns[theme])

\* a variant that stores the lowered text of a comment
RECURSIVE ThemeLoopLoweredSamples(_, _, _)
ThemeLoopLoweredSamples(st, body, i) ==
    IF i > Len(ThemeOrder) THEN st
    ELSE LET theme == ThemeOrder[i]
             key == FeedbackKey(theme)
             had == Get(st.f, key, <<>>)
             st2 == IF ThemeHit(body, theme)
                    THEN [themes |-> OInc(st.themes, theme),
                          f |-> IF Len(had) < MaxSamples
                                THEN Put(st.f, key,
                                         Append(had, Take(Lower(body), SampleChars)))
                                ELSE Put(st.f, key, had)]
                    ELSE st
         IN IF st2 = st THEN ThemeLoopLoweredSamples(st, body, i + 1)
            ELSE ThemeLoopLoweredSamples(st2, body, i + 1)

\* one comment body against the themes i.. of ThemeOrder; st is
\* [themes: the Counter review_themes, f: self.findings]
RECURSIVE ThemeLoop(_, _, _)
ThemeLoop(st, body, i) ==
    IF i > Len(ThemeOrder) THEN st
    ELSE LET theme == ThemeOrder[i]
             key == FeedbackKey(theme)
             had == Get(st.f, key, <<>>)
             st2 == IF ThemeHit(body, theme)
                    THEN [themes |-> OInc(st.themes, theme),
                          f |-> IF Len(had) < MaxSamples
                                THEN Put(st.f, key, Append(had, Take(body, SampleChars)))
                                ELSE Put(st.f, key, had)]
                    ELSE st
         \* (the comparison has TLC evaluate st2 before the next iteration)
         IN IF st2 = st THEN ThemeLoop(st, body, i + 1)
            ELSE ThemeLoop(st2, body, i + 1)

RECURSIVE ReviewLoop(_, _)
ReviewLoop(st, bodies) ==
    IF bodies = <<>> THEN st
    ELSE ReviewLoop(ThemeLoop(st, Head(bodies), 1), Tail(bodies))

(***************************************************************************)
(* File survey (analyze_file_patterns).  An entry of the walk is           *)
(* [path: the components below the area, is_file].                         *)
(***************************************************************************)
TopFileTypes == 10

\* the position of the last c in s, 0 when there is none: str.rfind + 1
LastIndex(s, c) ==
    IF \E i \in 1..Len(s) : CharAt(s, i) = c
    THEN CHOOSE i \in 1..Len(s) :
            /\ CharAt(s, i) = c
            /\ \A j \in (i + 1)..Len(s) : CharAt(s, j) /= c
    ELSE 0

FileName(entry) == entry.path[Len(entry.path)]

\* pathlib's PurePath.suffix: from the last dot, unless the dot leads or ends
Suffix(name) ==
    LET i == LastIndex(name, ".")
    IN IF 1 < i /\ i < Len(name) THEN SubSeq(name, i, Len(name)) ELSE ""

\* pathlib's PurePath.stem
Stem(name) ==
    LET i == LastIndex(name, ".")
    IN IF 1 < i /\ i < Len(name) THEN SubSeq(name, 1, i - 1) ELSE name

\* any(part.startswith('.') for part in file_path.parts)
IsHidden(entry) == \E i \in DOMAIN entry.path : CharAt(entry.path[i], 1) = "."

RECURSIVE CountLoopHiddenTallied(_, _, _)
CountLoopHiddenTallied(entries, total, types) ==
    IF entries = <<>> THEN <<total, types>>
    ELSE LET e == Head(entries)
             suffix == Suffix(FileName(e))
             types2 == IF e.is_file /\ suffix /= "" THEN OInc(types, suffix) ELSE types
         IN CountLoopHiddenTallied(Tail(entries),
                IF IsHidden(e) \/ ~e.is_file THEN total ELSE total + 1, types2)

\* the first walk: <<total_files, file_types>>
RECURSIVE CountLoop(_, _, _)
CountLoop(entries, total, types) ==
    IF entries = <<>> THEN <<total, types>>
    ELSE LET e == Head(entries)
             suffix == Suffix(FileName(e))
         IN IF IsHidden(e) \/ ~e.is_file
            THEN CountLoop(Tail(entries), total, types)
            ELSE CountLoop(Tail(entries), total + 1,
                           IF suffix /= "" THEN OInc(types, suffix) ELSE types)

code_extensions == {".ts", ".tsx", ".js", ".jsx", ".py", ".java", ".go", ".rs"}

\* name.lower() in ['index', '__init__']
IsIndexName(name) == Lower(name) \in {"index", "__init__"}

HasChar(s, c) == FirstIndex(s, c) > 0

NamingBucketKebabFirst(name) ==
    IF IsUpperChar(CharAt(name, 1)) /\ ~HasChar(name, "_") /\ ~HasChar(name, "-")
    THEN "PascalCase"
    ELSE IF HasChar(name, "-") /\ IsLower(name) THEN "kebab-case"
    ELSE IF HasChar(name, "_") /\ IsLower(name) THEN "snake_case"
    ELSE IF IsLowerChar(CharAt(name, 1)) /\ ~HasChar(name, "_") /\ ~HasChar(name, "-")
    THEN "camelCase"
    ELSE "mixed"

\* the if/elif chain over the base name
NamingBucket(name) ==
    IF IsUpperChar(CharAt(name, 1)) /\ ~HasChar(name, "_") /\ ~HasChar(name, "-")
    THEN "PascalCase"
    ELSE IF HasChar(name, "_") /\ IsLower(name) THEN "snake_case"
    ELSE IF HasChar(name, "-") /\ IsLower(name) THEN "kebab-case"
    ELSE IF IsLowerChar(CharAt(name, 1)) /\ ~HasChar(name, "_") /\ ~HasChar(name, "-")
    THEN "camelCase"
    ELSE "mixed"

\* the second walk: naming_patterns
RECURSIVE NamingLoop(_, _)
NamingLoop(entries, patterns) ==
    IF entries = <<>> THEN patterns
    ELSE LET e == Head(entries)
             name == Stem(FileName(e))
         IN IF Suffix(FileName(e)) \in code_extensions /\ e.is_file
                /\ ~IsIndexName(name)
            THEN NamingLoop(Tail(entries), OInc(patterns, NamingBucket(name)))
            ELSE NamingLoop(Tail(entries), patterns)

(***************************************************************************)
(* Rendering (generate_updated_guidelines, _generate_recommendations,      *)
(* _compare_guidelines).  A document is a record of what the markdown      *)
(* text says; `sections` are its level-2 headings in order.                *)
(***************************************************************************)
ShownFileTypes == 5
ShownThemes == 5
MinTechMentions == 3
SecondsPerMinute == 60
QuoteChars == 200
EvolutionCommits == 10

\* n / d rounded to the nearest integer, ties to even: what '%.1f' does to
\* the exact quotient once it is scaled to tenths
RoundHalfEven(n, d) ==
    LET q == n \div d
        r == n % d
    IN IF 2 * r < d THEN q
       ELSE IF 2 * r > d THEN q + 1
       ELSE IF q % 2 = 0 THEN q ELSE q + 1

\* f"{(count / total * 100) if total > 0 else 0:.1f}", in tenths of a percent
PercentTenths(count, total) ==
    IF total > 0 THEN RoundHalfEven(count * 1000, total) ELSE 0

\* the lines of the File Organization section
FileOrganization(m, f) ==
    IF "file_types" \in DOMAIN f /\ f["file_types"] /= <<>>
    THEN LET shown == Take(f["file_types"], ShownFileTypes)
         IN [i \in DOMAIN shown |->
                [ftype |-> shown[i].k, count |-> shown[i].v,
                 pct |-> PercentTenths(shown[i].v, Get(m, "total_files", 0))]]
    ELSE <<>>

\* the lines of the Naming Conventions section
NamingLines(f) ==
    IF "naming_conventions" \in DOMAIN f /\ f["naming_conventions"] /= <<>>
    THEN LET sorted == SortedDesc(f["naming_conventions"])
             total_named == OSum(f["naming_conventions"])
         IN [i \in DOMAIN sorted |->
                [pattern |-> sorted[i].k, count |-> sorted[i].v,
                 pct |-> PercentTenths(sorted[i].v, total_named)]]
    ELSE <<>>

\* s.replace('\n', ' ')
RECURSIVE Flatten(_)
Flatten(s) ==
    IF Len(s) = 0 THEN ""
    ELSE IF Len(s) = 1 THEN (IF s = "\n" THEN " " ELSE s)
    ELSE LET half == Len(s) \div 2
         IN Flatten(SubSeq(s, 1, half)) \o Flatten(SubSeq(s, half + 1, Len(s)))

\* s.strip() of a string whose only white space is blanks
RECURSIVE Strip(_)
Strip(s) ==
    IF Len(s) = 0 THEN ""
    ELSE IF CharAt(s, 1) = " " THEN Strip(SubSeq(s, 2, Len(s)))
    ELSE IF CharAt(s, Len(s)) = " " THEN Strip(SubSeq(s, 1, Len(s) - 1))
    ELSE s

\* sample.replace('\n', ' ').strip() cut to `chars` characters plus "..."
Quote(sample, chars) ==
    LET clean == Strip(Flatten(sample))
    IN IF Len(clean) > chars THEN Take(clean, chars) \o "..." ELSE clean

\* the subsections of Code Review Focus Areas
ReviewFocus(f) ==
    IF "review_themes" \in DOMAIN f /\ f["review_themes"] /= <<>>
    THEN LET shown == Take(f["review_themes"], ShownThemes)
         IN [i \in DOMAIN shown |->
                [theme |-> shown[i].k, count |-> shown[i].v,
                 sample |-> LET fb == Get(f, FeedbackKey(shown[i].k), <<>>)
                            IN IF fb /= <<>> THEN Quote(fb[1], QuoteChars) ELSE ""]]
    ELSE <<>>

\* the display category of one refactor commit
RefactorType(msg) ==
    IF Contains(Lower(msg), "typescript") \/ Contains(Lower(msg), "type")
    THEN "TypeScript Migration"
    ELSE IF Contains(Lower(msg), "test") THEN "Testing Improvements"
    ELSE IF Contains(Lower(msg), "component") \/ Contains(Lower(msg), "react")
    THEN "Component Refactoring"
    ELSE "General Improvements"

\* the categories of Recent Evolution with their commit counts
RECURSIVE EvolutionLoop(_, _)
EvolutionLoop(commits, types) ==
    IF commits = <<>> THEN types
    ELSE EvolutionLoop(Tail(commits), OInc(types, RefactorType(Head(commits).message)))

RecentEvolution(f) ==
    EvolutionLoop(Take(Get(f, "refactor_commits", <<>>), EvolutionCommits), <<>>)

TechMetrics(m) == {k \in DOMAIN m : SubSeq(k, 1, 5) = "tech_"}

\* the lines of Technology Focus: the technologies with count >= 3
TechnologyFocus(m) ==
    {[tech |-> k, count |-> m[k]] : k \in {x \in TechMetrics(m) : m[x] >= MinTechMentions}}

ThemeCount(f, theme) == OGet(Get(f, "review_themes", <<>>), theme, 0)

\* a variant with the two TypeScript rules as independent tests
RecommendationsIndependentTypeScriptRules(m, f) ==
    LET ts_mentions == Get(m, "tech_typescript", 0)
    IN (IF ts_mentions > 10 THEN <<"strict_typing">> ELSE <<>>)
       \o (IF ts_mentions > 5 THEN <<"typescript_migration">> ELSE <<>>)
       \o (IF ThemeCount(f, "testing") > 5 \/ Get(m, "tech_testing", 0) > 8
           THEN <<"testing_priority">> ELSE <<>>)
       \o (IF ThemeCount(f, "performance") > 3 THEN <<"profiling">> ELSE <<>>)
       \o (IF ThemeCount(f, "code_organization") > 5 THEN <<"structure">> ELSE <<>>)
       \o (IF ThemeCount(f, "error_handling") > 3 THEN <<"error_handling">> ELSE <<>>)
       \o (IF Get(m, "tech_react", 0) > 10 THEN <<"functional_components">> ELSE <<>>)

\* _generate_recommendations: the advice given, in order
_generate_recommendations(m, f) ==
    LET ts_mentions == Get(m, "tech_typescript", 0)
    IN (IF ts_mentions > 10 THEN <<"strict_typing">>
        ELSE IF ts_mentions > 5 THEN <<"typescript_migration">> ELSE <<>>)
       \o (IF ThemeCount(f, "testing") > 5 \/ Get(m, "tech_testing", 0) > 8
           THEN <<"testing_priority">> ELSE <<>>)
       \o (IF ThemeCount(f, "performance") > 3 THEN <<"profiling">> ELSE <<>>)
       \o (IF ThemeCount(f, "code_organization") > 5 THEN <<"structure">> ELSE <<>>)
       \o (IF ThemeCount(f, "error_handling") > 3 THEN <<"error_handling">> ELSE <<>>)
       \o (IF Get(m, "tech_react", 0) > 10 THEN <<"functional_components">> ELSE <<>>)

SectionsReviewHeadingAlways(m, f) ==
    <<"Analysis Summary">>
    \o (IF TechMetrics(m) /= {} THEN <<"Technology Focus">> ELSE <<>>)
    \o (IF FileOrganization(m, f) /= <<>> THEN <<"File Organization">> ELSE <<>>)
    \o (IF NamingLines(f) /= <<>> THEN <<"Naming Conventions">> ELSE <<>>)
    \o <<"Code Review Focus Areas">>
    \o (IF Get(f, "refactor_commits", <<>>) /= <<>> THEN <<"Recent Evolution">> ELSE <<>>)
    \o (IF _generate_recommendations(m, f) /= <<>> THEN <<"Recommendations">> ELSE <<>>)
    \o <<"Code Examples", "Changes from Previous Guidelines">>

\* the level-2 headings of a document with these parts, in order
Sections(m, f) ==
    <<"Analysis Summary">>
    \o (IF TechMetrics(m) /= {} THEN <<"Technology Focus">> ELSE <<>>)
    \o (IF FileOrganization(m, f) /= <<>> THEN <<"File Organization">> ELSE <<>>)
    \o (IF NamingLines(f) /= <<>> THEN <<"Naming Conventions">> ELSE <<>>)
    \o (IF ReviewFocus(f) /= <<>> THEN <<"Code Review Focus Areas">> ELSE <<>>)
    \o (IF Get(f, "refactor_commits", <<>>) /= <<>> THEN <<"Recent Evolution">> ELSE <<>>)
    \o (IF _generate_recommendations(m, f) /= <<>> THEN <<"Recommendations">> ELSE <<>>)
    \o <<"Code Examples", "Changes from Previous Guidelines">>

Range(seq) == {seq[i] : i \in DOMAIN seq}

RecursionError == [tag |-> "raise", exception |-> "RecursionError"]

NoFile == [tag |-> "nofile"]

EmptyFile == [tag |-> "empty"]

\* `if current:` of a file's text: the file exists and is not empty
Truthy(current) == current.tag = "doc"

RECURSIVE generate_updated_guidelines(_, _, _, _, _, _)
RECURSIVE _compare_guidelines(_, _, _, _, _, _)

\* The document, or RecursionError once the interpreter's recursion limit
\* (here MaxRecursion frames) is passed.  `current` is what
\* load_current_guidelines finds on disk.
generate_updated_guidelines(m, f, cfg, current, now, depth) ==
    IF depth > MaxRecursion THEN RecursionError
    ELSE LET changes == IF Truthy(current)
                        THEN _compare_guidelines(current, m, f, cfg, now, depth)
                        ELSE [tag |-> "first"]
         IN IF changes.tag = "raise" THEN changes
            ELSE [tag |-> "doc",
                  area |-> Area,
                  updated |-> now \div SecondsPerMinute,
                  period |-> cfg.analysis_depth,
                  total_commits |-> Get(m, "total_commits", 0),
                  relevant_prs |-> Get(m, "relevant_prs", 0),
                  total_files |-> Get(m, "total_files", 0),
                  tech_focus |-> TechnologyFocus(m),
                  file_org |-> FileOrganization(m, f),
                  naming |-> NamingLines(f),
                  review |-> ReviewFocus(f),
                  evolution |-> RecentEvolution(f),
                  recommendations |-> _generate_recommendations(m, f),
                  changes |-> changes,
                  sections |-> Sections(m, f)]

\* The comparison text; it renders the new document by calling
\* generate_updated_guidelines again.
_compare_guidelines(old_guidelines, m, f, cfg, now, depth) ==
    LET new_guidelines_text ==
            generate_updated_guidelines(m, f, cfg, old_guidelines, now, depth + 1)
    IN IF new_guidelines_text.tag = "raise" THEN new_guidelines_text
       ELSE LET old_sections == Range(old_guidelines.sections)
                new_sections == Range(new_guidelines_text.sections)
            IN [tag |-> "comparison",
                added |-> new_sections \ old_sections,
                removed |-> old_sections \ new_sections,
                common |-> Cardinality(old_sections \cap new_sections),
                old_commits |-> old_guidelines.total_commits,
                new_commits |-> Get(m, "total_commits", 0)]

(***************************************************************************)
(* The phases of run() as functions of self.metrics, self.findings and     *)
(* what the collaborator answered.                                         *)
(***************************************************************************)
\* a variant that counts the lines of the output, blank ones included
AnalyzeGitHistoryCountsEveryLine(m, f, answer) ==
    IF answer.state = "fail"
    THEN [metrics |-> Put(m, "total_commits", 0), findings |-> f]
    ELSE LET commits == CommitLines(answer.log)
             r == HistoryLoop(commits, Put(m, "total_commits", Len(answer.log)),
                              Get(f, "refactor_commits", <<>>))
         IN [metrics |-> r[1],
             findings |-> IF r[2] /= <<>> THEN Put(f, "refactor_commits", r[2]) ELSE f]

\* analyze_git_history: answer is [state: "ok" | "fail", log: the lines]
analyze_git_history(m, f, answer) ==
    IF answer.state = "fail"
    THEN [metrics |-> Put(m, "total_commits", 0), findings |-> f]
    ELSE LET commits == CommitLines(answer.log)
             r == HistoryLoop(commits, Put(m, "total_commits", Len(commits)),
                              Get(f, "refactor_commits", <<>>))
         IN [metrics |-> r[1],
             findings |-> IF r[2] /= <<>> THEN Put(f, "refactor_commits", r[2]) ELSE f]

\* analyze_pr_reviews: answer is [gh: what the gh CLI did, prs: its payload]
analyze_pr_reviews(m, f, answer) ==
    CASE answer.gh \in {"absent", "fail", "badjson"} ->
            [raise |-> "none", metrics |-> m, findings |-> f]
      [] answer.gh = "badshape" ->
            [raise |-> "AttributeError", metrics |-> m, findings |-> f]
      [] answer.gh = "ok" ->
            LET relevant_prs == RelevantPrs(answer.prs)
                st == ReviewLoop([themes |-> <<>>, f |-> f], ReviewBodies(relevant_prs))
            IN [raise |-> "none",
                metrics |-> Put(m, "relevant_prs", Len(relevant_prs)),
                findings |-> Put(st.f, "review_themes", MostCommon(st.themes, TopThemes))]

\* analyze_file_patterns: answer is [state: "ok" | "missing", tree: the walk]
analyze_file_patterns(m, f, answer) ==
    IF answer.state = "missing" THEN [metrics |-> m, findings |-> f]
    ELSE LET c == CountLoop(answer.tree, 0, <<>>)
             naming_patterns == NamingLoop(answer.tree, <<>>)
             f2 == Put(f, "file_types", MostCommon(c[2], TopFileTypes))
         IN [metrics |-> Put(m, "total_files", c[1]),
             findings |-> IF naming_patterns /= <<>>
                          THEN Put(f2, "naming_conventions", naming_patterns)
                          ELSE f2]

(***************************************************************************)
(* Persistence (save_guidelines, generate_report).  files is               *)
(* [guidelines: the area's file, backups: time stamp -> file,              *)
(*  reports: time stamp -> file]; a time stamp has the clock's second.     *)
(***************************************************************************)
\* save_guidelines on a POSIX file system, where rename replaces its target
save_guidelines(files, doc, cfg, now) ==
    [files EXCEPT
        !.backups = IF files.guidelines.tag /= "nofile"
                       /\ cfg.output_format.backup_previous
                    THEN Put(@, now, files.guidelines)
                    ELSE @,
        !.guidelines = doc]

\* _get_depth_from_config
_get_depth_from_config(m) ==
    IF Get(m, "total_commits", 0) > 0 THEN "standard" ELSE "unknown"

\* the report document generate_report renders
ReportText(m, f, now) ==
    [tag |-> "report",
     area |-> Area,
     date |-> now,
     depth |-> _get_depth_from_config(m),
     metrics |-> m,
     review_themes |-> SortedDesc(Get(f, "review_themes", <<>>)),
     file_types |-> Take(Get(f, "file_types", <<>>), ShownFileTypes),
     naming |-> SortedDesc(Get(f, "naming_conventions", <<>>)),
     refactors |-> Len(Get(f, "refactor_commits", <<>>))]

\* generate_report: open(report_path, 'w') of the path with the clock's second
generate_report(files, m, f, now) ==
    [files EXCEPT !.reports = Put(@, now, ReportText(m, f, now))]

(***************************************************************************)
(* The command lines and the collaborators' answers the pipeline is run    *)
(* with.  An answer is drawn when the process first asks; "?" is an answer *)
(* not asked for yet.                                                      *)
(***************************************************************************)
NoExit == 0 - 1

Argvs ==
    {[help |-> TRUE, area |-> TRUE, depth |-> "standard", config |-> "none"],
     [help |-> FALSE, area |-> FALSE, depth |-> "standard", config |-> "none"]}
    \cup {[help |-> FALSE, area |-> TRUE, depth |-> d, config |-> c] :
            d \in Depths \cup {"bogus"}, c \in {"none", "missing", "present"}}

File(name) == [path |-> <<name>>, is_file |-> TRUE]

Dir(name) == [path |-> <<name>>, is_file |-> FALSE]

PipelineLogs == {<<>>, <<"a1b2c3d Refactor tests to TypeScript", "">>}

PipelinePrs ==
    {<<[files |-> <<"lib/a.ts">>, reviews |-> <<"Please add a unit test", "">>],
       [files |-> <<"docs/x.md">>, reviews |-> <<"rename this">>]>>}

PipelineTrees ==
    {<<>>,
     <<File("Makefile")>>,
     <<File("Button.tsx"), Dir("sub"), [path |-> <<"sub", "my_file.py">>, is_file |-> TRUE]>>}

UnobservedEnv ==
    [git |-> "?", sibling |-> "?", log_state |-> "?", log |-> <<>>,
     gh |-> "?", prs |-> <<>>, tree_state |-> "?", tree |-> <<>>]

GitAnswers(e) == IF e.git = "?" THEN {"repo", "norepo", "nogit"} ELSE {e.git}

SiblingAnswers(e) ==
    IF e.sibling = "?" THEN {"absent", "custom", "malformed"} ELSE {e.sibling}

LogAnswers(e) ==
    IF e.log_state = "?"
    THEN {[state |-> "fail", log |-> <<>>]}
            \cup {[state |-> "ok", log |-> l] : l \in PipelineLogs}
    ELSE {[state |-> e.log_state, log |-> e.log]}

GhAnswers(e) ==
    IF e.gh = "?"
    THEN {[gh |-> g, prs |-> <<>>] : g \in {"absent", "fail", "badjson", "badshape", "ok"}}
            \cup {[gh |-> "ok", prs |-> x] : x \in PipelinePrs}
    ELSE {[gh |-> e.gh, prs |-> e.prs]}

TreeAnswers(e) ==
    IF e.tree_state = "?"
    THEN {[state |-> "missing", tree |-> <<>>]}
            \cup {[state |-> "ok", tree |-> t] : t \in PipelineTrees}
    ELSE {[state |-> e.tree_state, tree |-> e.tree]}

NoDoc == [tag |-> "nodoc"]

NoFiles == [guidelines |-> NoFile, backups |-> EmptyDict, reports |-> EmptyDict]

NoHist == [prev_exit |-> NoExit, saved |-> <<>>, report_calls |-> 0]

(***************************************************************************)
(* main() and run(), one action per step.                                  *)
(***************************************************************************)
Exit(code, cause) ==
    /\ pc' = "exited"
    /\ exit_code' = code
    /\ raised' = cause

Goto(next) ==
    /\ pc' = next
    /\ UNCHANGED <<exit_code, raised>>

ParseArgsExitOne(a) ==
    IF a.help THEN [ok |-> FALSE, code |-> 0, cause |-> "help"]
    ELSE IF ~a.area \/ a.depth \notin Depths
    THEN [ok |-> FALSE, code |-> 1, cause |-> "argparse"]
    ELSE [ok |-> TRUE, code |-> 0, cause |-> "none"]

\* parser.parse_args(): argparse prints help and exits 0, or rejects the
\* command line (a missing --area, a --depth outside `choices`) and exits 2
parse_args(a) ==
    IF a.help THEN [ok |-> FALSE, code |-> 0, cause |-> "help"]
    ELSE IF ~a.area \/ a.depth \notin Depths
    THEN [ok |-> FALSE, code |-> 2, cause |-> "argparse"]
    ELSE [ok |-> TRUE, code |-> 0, cause |-> "none"]

main_parse_args ==
    /\ pc = "parse"
    /\ LET r == parse_args(argv)
       IN IF r.ok THEN Goto("init") ELSE Exit(r.code, r.cause)
    /\ UNCHANGED <<argv, env, config, metrics, findings, guidelines, fs, clock,
                   runs, hist>>

\* GuidelineRefresher(args.area, args.config): _find_repo_root, _load_config
main_construct ==
    /\ pc = "init"
    /\ \E g \in GitAnswers(env) :
        \E sib \in (IF g = "repo" /\ argv.config = "none"
                     THEN SiblingAnswers(env) ELSE {env.sibling}) :
            /\ env' = [env EXCEPT !.git = g, !.sibling = sib]
            /\ CASE g = "nogit" -> Exit(1, "FileNotFoundError") /\ UNCHANGED config
                 [] g = "norepo" -> Exit(1, "SystemExit") /\ UNCHANGED config
                 [] g = "repo" ->
                        LET r == _load_config(argv.config, sib)
                        IN IF r[1] = "ok"
                           THEN Goto("run") /\ config' = r[2]
                           ELSE Exit(1, r[2]) /\ UNCHANGED config
    /\ metrics' = EmptyDict
    /\ findings' = EmptyDict
    /\ UNCHANGED <<argv, guidelines, fs, clock, runs, hist>>

\* run(): the depth check
run_check_depth ==
    /\ pc = "run"
    /\ IF argv.depth \in DOMAIN config.analysis_depth
       THEN Goto("git")
       ELSE Exit(1, "SystemExit")
    /\ UNCHANGED <<argv, env, config, metrics, findings, guidelines, fs, clock,
                   runs, hist>>

run_analyze_git_history ==
    /\ pc = "git"
    /\ \E a \in LogAnswers(env) :
        LET r == analyze_git_history(metrics, findings, a)
        IN /\ env' = [env EXCEPT !.log_state = a.state, !.log = a.log]
           /\ metrics' = r.metrics
           /\ findings' = r.findings
    /\ Goto("pr")
    /\ UNCHANGED <<argv, config, guidelines, fs, clock, runs, hist>>

run_analyze_pr_reviews ==
    /\ pc = "pr"
    /\ \E a \in GhAnswers(env) :
        LET r == analyze_pr_reviews(metrics, findings, a)
        IN /\ env' = [env EXCEPT !.gh = a.gh, !.prs = a.prs]
           /\ metrics' = r.metrics
           /\ findings' = r.findings
           /\ IF r.raise = "none" THEN Goto("files") ELSE Exit(1, r.raise)
    /\ UNCHANGED <<argv, config, guidelines, fs, clock, runs, hist>>

run_analyze_file_patterns ==
    /\ pc = "files"
    /\ \E a \in TreeAnswers(env) :
        LET r == analyze_file_patterns(metrics, findings, a)
        IN /\ env' = [env EXCEPT !.tree_state = a.state, !.tree = a.tree]
           /\ metrics' = r.metrics
           /\ findings' = r.findings
    /\ Goto("generate")
    /\ UNCHANGED <<argv, config, guidelines, fs, clock, runs, hist>>

run_generate_updated_guidelines ==
    /\ pc = "generate"
    /\ LET g == generate_updated_guidelines(metrics, findings, config,
                                            fs.guidelines, clock, 1)
       IN IF g.tag = "raise"
          THEN Exit(1, g.exception) /\ UNCHANGED guidelines
          ELSE Goto("save") /\ guidelines' = g
    /\ UNCHANGED <<argv, env, config, metrics, findings, fs, clock, runs, hist>>

run_save_guidelines ==
    /\ pc = "save"
    /\ fs' = save_guidelines(fs, guidelines, config, clock)
    /\ hist' = [hist EXCEPT !.saved = Append(@, guidelines)]
    /\ Goto("report")
    /\ UNCHANGED <<argv, env, config, metrics, findings, guidelines, clock, runs>>

\* the user interrupts between open(output_path, 'w') and f.write: the old
\* file is renamed away already and the new one is empty
run_save_guidelines_interrupted ==
    /\ pc = "save"
    /\ fs' = save_guidelines(fs, EmptyFile, config, clock)
    /\ Exit(1, "KeyboardInterrupt")
    /\ UNCHANGED <<argv, env, config, metrics, findings, guidelines, clock, runs,
                   hist>>

\* a variant of run() that writes the report while the file survey is pending
RunGenerateReportBeforeSurvey ==
    /\ pc = "files"
    /\ fs' = generate_report(fs, metrics, findings, clock)
    /\ hist' = [hist EXCEPT !.report_calls = @ + 1]
    /\ Goto("return")
    /\ UNCHANGED <<argv, env, config, metrics, findings, guidelines, clock, runs>>

run_generate_report ==
    /\ pc = "report"
    /\ fs' = generate_report(fs, metrics, findings, clock)
    /\ hist' = [hist EXCEPT !.report_calls = @ + 1]
    /\ Goto("return")
    /\ UNCHANGED <<argv, env, config, metrics, findings, guidelines, clock, runs>>

\* run() returns and main() calls sys.exit(0)
main_exit ==
    /\ pc = "return"
    /\ Exit(0, "none")
    /\ UNCHANGED <<argv, env, config, metrics, findings, guidelines, fs, clock,
                   runs, hist>>

TryBlock == {"init", "run", "git", "pr", "files", "generate", "save", "report", "return"}

\* except KeyboardInterrupt: sys.exit(1)
main_KeyboardInterrupt ==
    /\ pc \in TryBlock
    /\ Exit(1, "KeyboardInterrupt")
    /\ UNCHANGED <<argv, env, config, metrics, findings, guidelines, fs, clock,
                   runs, hist>>

\* time passes; the clock is read when a document is rendered or written
Tick ==
    /\ pc \in {"generate", "save", "report", "api"}
    /\ clock < MaxClock
    /\ clock' = clock + 1
    /\ UNCHANGED <<argv, env, pc, exit_code, raised, config, metrics, findings,
                   guidelines, fs, runs, hist>>

\* the tool is started again with the same command line, on the files the
\* earlier process left; git, gh and the file system answer what they
\* answered before (the area and its history are unchanged)
NewProcess ==
    /\ pc = "exited"
    /\ runs < MaxRuns
    /\ pc' = "parse"
    /\ exit_code' = NoExit
    /\ raised' = "none"
    /\ config' = NoConfig
    /\ metrics' = EmptyDict
    /\ findings' = EmptyDict
    /\ guidelines' = NoDoc
    /\ runs' = runs + 1
    /\ hist' = [hist EXCEPT !.prev_exit = exit_code]
    /\ UNCHANGED <<argv, env, fs, clock>>

Init ==
    /\ argv \in Argvs
    /\ env = UnobservedEnv
    /\ pc = "parse"
    /\ exit_code = NoExit
    /\ raised = "none"
    /\ config = NoConfig
    /\ metrics = EmptyDict
    /\ findings = EmptyDict
    /\ guidelines = NoDoc
    /\ fs = NoFiles
    /\ clock = 0
    /\ runs = 1
    /\ hist = NoHist

Next ==
    \/ main_parse_args
    \/ main_construct
    \/ run_check_depth
    \/ run_analyze_git_history
    \/ run_analyze_pr_reviews
    \/ run_analyze_file_patterns
    \/ run_generate_updated_guidelines
    \/ run_save_guidelines
    \/ run_save_guidelines_interrupted
    \/ run_generate_report
    \/ main_exit
    \/ main_KeyboardInterrupt
    \/ Tick
    \/ NewProcess

Spec == Init /\ [][Next]_vars

(***************************************************************************)
(* The claims of the pipeline, checked under Spec.                         *)
(***************************************************************************)
\* the process went through run() to the end and saved both documents
RunSucceeded == pc = "exited" /\ raised = "none"

\* the process is a second run, on the files a successful first run left,
\* and nobody interrupted it
SecondRunEnded ==
    /\ pc = "exited"
    /\ runs >= 2
    /\ ~argv.help
    /\ hist.prev_exit = 0
    /\ raised /= "KeyboardInterrupt"

\* C1: a second run on an unchanged area whose guidelines file was written
\* by the first run completes successfully, and the first run's guidelines
\* file has become a backup beside the newly written guidelines file.
C1_SecondRunBacksUp ==
    SecondRunEnded =>
        /\ exit_code = 0
        /\ Len(hist.saved) >= 2
        /\ fs.guidelines = hist.saved[Len(hist.saved)]
        /\ \E ts \in DOMAIN fs.backups :
                fs.backups[ts] = hist.saved[Len(hist.saved) - 1]

ArgsRejected == ~argv.help /\ (~argv.area \/ argv.depth \notin Depths)

\* C2 as stated: the exit code is 0 exactly when the run succeeds and 1 when
\* the directory is no repository, the depth is invalid, the user interrupts
\* or another error is uncaught; there is no other exit code.
C2_ExitCodeZeroOrOne ==
    pc = "exited" =>
        /\ exit_code \in {0, 1}
        /\ exit_code = 0 <=> RunSucceeded
        /\ argv.depth \notin Depths => exit_code = 1
        /\ env.git = "norepo" => exit_code = 1
        /\ raised = "KeyboardInterrupt" => exit_code = 1

\* C2 amended: the exit code is 0 when the run succeeds or help is asked for,
\* 2 when the argument parser rejects the command line (a depth outside
\* quick/standard/deep, a missing area), and 1 when the directory is no
\* repository, the depth is no preset of the loaded configuration, the user
\* interrupts the run or another error is uncaught; there is no other code.
C2_ExitCodes ==
    pc = "exited" =>
        /\ exit_code \in {0, 1, 2}
        /\ exit_code = 2 <=> ArgsRejected
        /\ exit_code = 0 <=> (argv.help \/ RunSucceeded)
        /\ (~ArgsRejected /\ ~argv.help /\ env.git \in {"norepo", "nogit"})
                => exit_code = 1
        /\ (config /= NoConfig /\ argv.depth \notin DOMAIN config.analysis_depth)
                => exit_code = 1
        /\ raised \in {"KeyboardInterrupt", "SystemExit", "FileNotFoundError",
                        "AttributeError", "JSONDecodeError", "RecursionError"}
                => exit_code = 1

C2_Witness == pc = "exited" /\ argv.depth = "bogus" /\ exit_code = 2

\* the file survey counted a file with an extension
SurveyFoundFileType ==
    /\ env.tree_state = "ok"
    /\ \E i \in DOMAIN env.tree :
            /\ env.tree[i].is_file
            /\ ~IsHidden(env.tree[i])
            /\ Suffix(FileName(env.tree[i])) /= ""

RenderedWithoutGh == guidelines.tag = "doc" /\ env.gh = "absent"

ReviewPhaseAborted ==
    /\ pc = "exited"
    /\ env.gh /= "?"
    /\ env.tree_state = "?"
    /\ raised /= "KeyboardInterrupt"

\* C4: whatever goes wrong fetching or parsing the review data (the query
\* fails, the payload is no JSON, the payload has an unexpected shape), the
\* review phase returns and the run goes on to the file survey.
C4_ReviewFailureIsWarning ==
    env.gh \in {"fail", "badjson", "badshape"} => ~ReviewPhaseAborted

\* the command line names no configuration and none lies beside the script,
\* or names one that does not exist
NoConfigSource ==
    /\ parse_args(argv).ok
    /\ env.git = "repo"
    /\ \/ argv.config = "none" /\ env.sibling = "absent"
       \/ argv.config = "missing"

\* C5: without a configuration source, and with one that does not exist,
\* the built-in presets are loaded and loading does not fail the run.
C5_FallsBackToDefaults ==
    NoConfigSource =>
        /\ raised /= "AttributeError"
        /\ pc \in TryBlock \ {"init"} => config = DefaultConfig

(***************************************************************************)
(* The persistence methods called directly on one GuidelineRefresher, in   *)
(* any order and at any time (SpecPersist).                                *)
(***************************************************************************)
ApiDocs ==
    {generate_updated_guidelines([x \in {"total_commits"} |-> n], EmptyDict,
                                 DefaultConfig, NoFile, 0, 1) : n \in 0..MaxDocCommits}

api_save_guidelines ==
    /\ pc = "api"
    /\ runs < MaxCalls
    /\ \E doc \in ApiDocs :
        /\ fs' = save_guidelines(fs, doc, config, clock)
        /\ hist' = [hist EXCEPT !.saved = Append(@, doc)]
    /\ runs' = runs + 1
    /\ UNCHANGED <<argv, env, pc, exit_code, raised, config, metrics, findings,
                   guidelines, clock>>

api_generate_report ==
    /\ pc = "api"
    /\ runs < MaxCalls
    /\ fs' = generate_report(fs, metrics, findings, clock)
    /\ hist' = [hist EXCEPT !.report_calls = @ + 1]
    /\ runs' = runs + 1
    /\ UNCHANGED <<argv, env, pc, exit_code, raised, config, metrics, findings,
                   guidelines, clock>>

StandardArgv == [help |-> FALSE, area |-> TRUE, depth |-> "standard", config |-> "none"]

InitPersist ==
    /\ argv = StandardArgv
    /\ env = [UnobservedEnv EXCEPT !.git = "repo", !.sibling = "absent"]
    /\ pc = "api"
    /\ exit_code = NoExit
    /\ raised = "none"
    /\ config = DefaultConfig
    /\ metrics \in {EmptyDict, [x \in {"total_commits"} |-> 1]}
    /\ findings = EmptyDict
    /\ guidelines = NoDoc
    /\ fs = NoFiles
    /\ clock = 0
    /\ runs = 0
    /\ hist = NoHist

NextPersist ==
    \/ api_save_guidelines
    \/ api_generate_report
    \/ Tick

SpecPersist == InitPersist /\ [][NextPersist]_vars

\* C6: with backups enabled, after any sequence of saves every document ever
\* saved is still on disk: the last one as the guidelines file, each earlier
\* one as a backup file of its own.
C6_EverySavedDocumentKept ==
    (config.output_format.backup_previous /\ hist.saved /= <<>>) =>
        /\ fs.guidelines = hist.saved[Len(hist.saved)]
        /\ Cardinality(DOMAIN fs.backups) = Len(hist.saved) - 1
        /\ \A i \in 1..(Len(hist.saved) - 1) :
                \E ts \in DOMAIN fs.backups : fs.backups[ts] = hist.saved[i]

\* C7: no report file is overwritten: after n report generations there are
\* n report files.
C7_OneReportFilePerGeneration ==
    Cardinality(DOMAIN fs.reports) = hist.report_calls

(***************************************************************************)
(* History analysis on its own (SpecHistory): the logs git can answer.     *)
(***************************************************************************)
HistoryLines ==
    {"a1b2c3d Refactor TypeScripted Tests",
     "0f0f0f0 add React hook",
     "1234567 Fix typo",
     "89abcde update docs",
     "fedcba9 Migrate to Vue3 Composition API",
     "abcdef0",
     "7654321 ASYNC await memo",
     ""}

RECURSIVE SeqsUpTo(_, _)
SeqsUpTo(S, n) ==
    IF n = 0 THEN {<<>>}
    ELSE LET shorter == SeqsUpTo(S, n - 1)
         IN shorter \cup {Append(q, x) : q \in {r \in shorter : Len(r) = n - 1}, x \in S}

InitHistory ==
    /\ argv = StandardArgv
    /\ \E l \in SeqsUpTo(HistoryLines, MaxCommits) : \E st \in {"ok", "fail"} :
        env = [UnobservedEnv EXCEPT !.git = "repo", !.sibling = "absent",
                                    !.log_state = st,
                                    !.log = IF st = "ok" THEN l ELSE <<>>]
    /\ pc = "git"
    /\ exit_code = NoExit
    /\ raised = "none"
    /\ config = DefaultConfig
    /\ metrics = EmptyDict
    /\ findings = EmptyDict
    /\ guidelines = NoDoc
    /\ fs = NoFiles
    /\ clock = 0
    /\ runs = 1
    /\ hist = NoHist

NextHistory == run_analyze_git_history

SpecHistory == InitHistory /\ [][NextHistory]_vars

\* the log entries git returned
LogEntries == CommitLines(env.log)

\* the text after the revision identifier, lower-cased, has kw somewhere
Mentions(entry, kw) ==
    LET text == Lower(CommitMessage(entry))
    IN \E i \in 1..Len(text) :
        i + Len(kw) - 1 <= Len(text) /\ SubSeq(text, i, i + Len(kw) - 1) = kw

EntriesMentioning(keywords) ==
    {i \in DOMAIN LogEntries : \E kw \in keywords : Mentions(LogEntries[i], kw)}

\* C9: after history analysis each technology counter is the number of log
\* entries whose lower-cased message contains one of the technology's
\* keywords as a substring (each entry counted once per technology, an entry
\* may count for several technologies), and the refactor list holds the
\* entries that contain a refactor keyword.
C9_TechCounters ==
    (pc = "pr" /\ env.log_state = "ok") =>
        /\ \A t \in Techs :
                Get(metrics, TechKey(t), 0)
                    = Cardinality(EntriesMentioning(tech_keywords[t]))
        /\ Len(Get(findings, "refactor_commits", <<>>))
                = Cardinality(EntriesMentioning(RefactorKeywords))

\* one entry, "Refactor TypeScripted Tests", counted for typescript (inside
\* a longer word), for testing, and listed as a refactor commit
C9_Witness ==
    /\ pc = "pr"
    /\ env.log = <<"a1b2c3d Refactor TypeScripted Tests">>
    /\ Get(metrics, "tech_typescript", 0) = 1
    /\ Get(metrics, "tech_testing", 0) = 1
    /\ Len(Get(findings, "refactor_commits", <<>>)) = 1

(***************************************************************************)
(* The file survey and the rendering of its findings (SpecFiles): the      *)
(* trees the walk can meet, after git failed and gh was not found.          *)
(***************************************************************************)
SurveyEntries ==
    <<File("Button.tsx"), File("my_file.py"), File("my-file.js"), File("myFile.ts"),
      File("My_File.ts"), File("a_b-c.go"), File("index.ts"), File("Index.js"),
      File("__init__.py"), File(".hidden.rs"), File("README.md"), File("Makefile"),
      Dir("pkg.py"), [path |-> <<".git", "hook.py">>, is_file |-> TRUE],
      File("1st.java")>>

\* the entries with the positions in S, in walk order
RECURSIVE Walk(_, _)
Walk(S, i) ==
    IF i > Len(SurveyEntries) THEN <<>>
    ELSE (IF i \in S THEN <<SurveyEntries[i]>> ELSE <<>>) \o Walk(S, i + 1)

SurveyTrees ==
    {Walk(S, 1) : S \in {T \in SUBSET DOMAIN SurveyEntries : Cardinality(T) <= MaxFiles}}

InitFiles ==
    /\ argv = StandardArgv
    /\ \E t \in SurveyTrees : \E st \in {"ok", "missing"} :
        env = [UnobservedEnv EXCEPT !.git = "repo", !.sibling = "absent",
                                    !.log_state = "fail", !.gh = "absent",
                                    !.tree_state = st,
                                    !.tree = IF st = "ok" THEN t ELSE <<>>]
    /\ pc = "files"
    /\ exit_code = NoExit
    /\ raised = "none"
    /\ config = DefaultConfig
    /\ metrics = [x \in {"total_commits"} |-> 0]
    /\ findings = EmptyDict
    /\ guidelines = NoDoc
    /\ fs = NoFiles
    /\ clock = 0
    /\ runs = 1
    /\ hist = NoHist

NextFiles ==
    \/ run_analyze_file_patterns
    \/ run_generate_updated_guidelines

SpecFiles == InitFiles /\ [][NextFiles]_vars

Surveyed == pc \in {"generate", "save"} /\ env.tree_state = "ok"

Buckets == {"PascalCase", "snake_case", "kebab-case", "camelCase", "mixed"}

\* the base names the naming walk classifies: source files that are no
\* index or entry-point file
ClassifiedNames ==
    {i \in DOMAIN env.tree :
        /\ env.tree[i].is_file
        /\ Suffix(FileName(env.tree[i])) \in code_extensions
        /\ Lower(Stem(FileName(env.tree[i]))) \notin {"index", "__init__"}}

BaseName(i) == Stem(FileName(env.tree[i]))

Has(name, c) == \E k \in 1..Len(name) : CharAt(name, k) = c

\* the five rules, each with the earlier ones excluded
Rule(name, bucket) ==
    LET pascal == IsUpperChar(CharAt(name, 1)) /\ ~Has(name, "_") /\ ~Has(name, "-")
        snake == Has(name, "_") /\ IsLower(name)
        kebab == Has(name, "-") /\ IsLower(name)
        camel == IsLowerChar(CharAt(name, 1)) /\ ~Has(name, "_") /\ ~Has(name, "-")
    IN CASE bucket = "PascalCase" -> pascal
         [] bucket = "snake_case" -> ~pascal /\ snake
         [] bucket = "kebab-case" -> ~pascal /\ ~snake /\ kebab
         [] bucket = "camelCase" -> ~pascal /\ ~snake /\ ~kebab /\ camel
         [] bucket = "mixed" -> ~pascal /\ ~snake /\ ~kebab /\ ~camel

NamingCounts == Get(findings, "naming_conventions", <<>>)

\* C8: every source-file base name that is no index name is counted in
\* exactly one of the five buckets, the one its first matching rule names;
\* index and __init__ names (in any case) are counted in none.
C8_ExactlyOneBucket ==
    Surveyed =>
        /\ OKeys(NamingCounts) \subseteq Buckets
        /\ \A b \in Buckets :
                OGet(NamingCounts, b, 0)
                    = Cardinality({i \in ClassifiedNames : Rule(BaseName(i), b)})
        /\ OSum(NamingCounts) = Cardinality(ClassifiedNames)

\* a tree with an index file, a name with both separators and a PascalCase
\* name: two names counted, the index file in no bucket
C8_Witness ==
    /\ Surveyed
    /\ env.tree = <<File("Button.tsx"), File("a_b-c.go"), File("Index.js")>>
    /\ NamingCounts = <<[k |-> "PascalCase", v |-> 1], [k |-> "snake_case", v |-> 1]>>

RECURSIVE SumPct(_)
SumPct(lines) == IF lines = <<>> THEN 0 ELSE Head(lines).pct + SumPct(Tail(lines))

RECURSIVE SumCount(_)
SumCount(lines) == IF lines = <<>> THEN 0 ELSE Head(lines).count + SumCount(Tail(lines))

Rendered == pc = "save" /\ guidelines.tag = "doc"

\* C10 as stated: the rendered file-type percentages (in tenths of a
\* percent) sum to at most 100%, and with total_files = 0 every rendered
\* percentage is 0.
C10_PercentagesAtMost100 ==
    Rendered =>
        /\ SumPct(guidelines.file_org) <= 1000
        /\ guidelines.total_files = 0 =>
                \A i \in DOMAIN guidelines.file_org : guidelines.file_org[i].pct = 0

\* C10 amended: the counts behind the rendered file types sum to at most
\* total_files (their exact shares to at most 100%); each share is rendered
\* rounded to one decimal, so the rendered percentages sum to at most 100.2;
\* with total_files = 0 no file type is rendered and nothing is divided.
C10_RoundedPercentages ==
    Rendered =>
        LET total == guidelines.total_files
            lines == guidelines.file_org
        IN /\ SumCount(lines) <= total
           /\ \A i \in DOMAIN lines :
                LET d == lines[i].pct * total - lines[i].count * 1000
                IN 2 * d <= total /\ -2 * d <= total
           /\ SumPct(lines) <= 1002
           /\ total = 0 => lines = <<>>

\* six files of five types: 33.3% and four times 16.7%
C10_Witness == Rendered /\ SumPct(guidelines.file_org) = 1001

(***************************************************************************)
(* The order of the phases of run(), checked under Spec.                   *)
(***************************************************************************)
PhaseOrder ==
    <<"parse", "init", "run", "git", "pr", "files", "generate", "save",
      "report", "return">>

PhaseRank(p) == CHOOSE i \in DOMAIN PhaseOrder : PhaseOrder[i] = p

Analyzers == {"git", "pr", "files"}

\* C11: in every run the phases happen in the fixed order history analysis,
\* review analysis, file survey, guidelines rendering, guidelines
\* persistence, report rendering and persistence: every step leaves the
\* position alone, moves to the next phase, or ends the process; metrics and
\* findings change only in the analyzers; the guidelines file and its backups
\* change only in the persistence phase, which starts after the rendering;
\* the report file is written only in the report phase, which is entered
\* only by the step that wrote the guidelines file.
C11_PhaseOrder ==
    [][/\ pc' /= pc /\ pc /= "exited" =>
            \/ pc' = "exited"
            \/ PhaseRank(pc') = PhaseRank(pc) + 1
       /\ pc = "exited" => pc' \in {"exited", "parse"}
       /\ (pc \in TryBlock /\ (metrics' /= metrics \/ findings' /= findings)) =>
            pc \in Analyzers
       /\ (fs'.guidelines /= fs.guidelines \/ fs'.backups /= fs.backups) =>
            pc = "save"
       /\ fs'.reports /= fs.reports => pc = "report" /\ pc' = "return"
       /\ pc' = "report" /\ pc /= "report" =>
            pc = "save" /\ fs'.guidelines = guidelines /\ guidelines.tag = "doc"
      ]_vars

\* a first run went through every phase and wrote both files
C11_Witness ==
    /\ pc = "return" /\ runs = 1
    /\ fs.guidelines.tag = "doc"
    /\ fs.reports /= EmptyDict
    /\ env.log_state /= "?" /\ env.gh /= "?" /\ env.tree_state /= "?"

(***************************************************************************)
(* The recommendations, checked under SpecRecommend: run() from the        *)
(* history analysis to the rendering, over histories and review comments   *)
(* whose counts lie on both sides of every threshold of the rule table.    *)
(***************************************************************************)
TypeScriptMentions == {5, 6, 10, 11}

TestingMentions == {8, 9}

ReactMentions == {10, 11}

ThemeMentions ==
    [testing : {5, 6}, performance : {3, 4}, code_organization : {5, 6},
     error_handling : {3, 4}]

\* n times the same line
Repeat(line, n) == [i \in 1..n |-> line]

MaxComments == 6

\* review comments of which the first th.testing mention a test, the first
\* th.performance slowness, and so on
Comments(th) ==
    [i \in 1..MaxComments |->
        "Please"
        \o (IF i <= th.testing THEN " add a Test" ELSE "")
        \o (IF i <= th.performance THEN " not so slow" ELSE "")
        \o (IF i <= th.code_organization THEN " split it" ELSE "")
        \o (IF i <= th.error_handling THEN " catch it" ELSE "")]

InitRecommend ==
    /\ argv = StandardArgv
    /\ \E ts \in TypeScriptMentions, te \in TestingMentions, re \in ReactMentions,
          th \in ThemeMentions :
            env = [git |-> "repo", sibling |-> "absent",
                   log_state |-> "ok",
                   log |-> Repeat("a1b2c3d Use TypeScript", ts)
                            \o Repeat("b2c3d4e add jest", te)
                            \o Repeat("c3d4e5f new JSX view", re),
                   gh |-> "ok",
                   prs |-> <<[files |-> <<"lib/a.py">>,
                              reviews |-> Comments(th)]>>,
                   tree_state |-> "ok", tree |-> <<>>]
    /\ pc = "git"
    /\ exit_code = NoExit
    /\ raised = "none"
    /\ config = DefaultConfig
    /\ metrics = EmptyDict
    /\ findings = EmptyDict
    /\ guidelines = NoDoc
    /\ fs = NoFiles
    /\ clock = 0
    /\ runs = 1
    /\ hist = NoHist

NextRecommend ==
    \/ run_analyze_git_history
    \/ run_analyze_pr_reviews
    \/ run_analyze_file_patterns
    \/ run_generate_updated_guidelines

SpecRecommend == InitRecommend /\ [][NextRecommend]_vars

Advice == Range(guidelines.recommendations)

\* C12: the recommendation list of a rendered document is exactly the subset
\* the rule table selects, each advice given at most once: strict typing iff
\* TypeScript count > 10; migration iff 5 < TypeScript count <= 10; testing
\* iff testing theme count > 5 or testing technology count > 8; profiling
\* iff performance theme count > 3; structure iff organization theme
\* count > 5; error handling iff error-handling theme count > 3; functional
\* components iff react count > 10; strict typing and migration never appear
\* together.
C12_RuleTable ==
    guidelines.tag = "doc" =>
        LET ts == Get(metrics, "tech_typescript", 0)
        IN /\ "strict_typing" \in Advice <=> ts > 10
           /\ "typescript_migration" \in Advice <=> (5 < ts /\ ts <= 10)
           /\ "testing_priority" \in Advice <=>
                \/ ThemeCount(findings, "testing") > 5
                \/ Get(metrics, "tech_testing", 0) > 8
           /\ "profiling" \in Advice <=> ThemeCount(findings, "performance") > 3
           /\ "structure" \in Advice <=> ThemeCount(findings, "code_organization") > 5
           /\ "error_handling" \in Advice <=> ThemeCount(findings, "error_handling") > 3
           /\ "functional_components" \in Advice <=> Get(metrics, "tech_react", 0) > 10
           /\ Advice \subseteq {"strict_typing", "typescript_migration",
                                "testing_priority", "profiling", "structure",
                                "error_handling", "functional_components"}
           /\ Cardinality(Advice) = Len(guidelines.recommendations)
           /\ ~({"strict_typing", "typescript_migration"} \subseteq Advice)

\* eleven TypeScript commits, eight testing commits and five testing
\* comments, four performance comments: strict typing and profiling advice
\* only
C12_Witness ==
    /\ guidelines.tag = "doc"
    /\ Get(metrics, "tech_typescript", 0) = 11
    /\ Get(metrics, "tech_testing", 0) = 8
    /\ ThemeCount(findings, "testing") = 5
    /\ guidelines.recommendations = <<"strict_typing", "profiling">>

(***************************************************************************)
(* Review analysis on its own (SpecReview): the payloads gh can answer.    *)
(***************************************************************************)
MaxPrs == 3

\* a comment of 310 characters
LongComment ==
    LET a == "Please cover this with a Test.\n"
        b == a \o a
        d == b \o b \o b \o b
    IN d \o b

ReviewPrs ==
    {[files |-> <<"lib/a.ts">>, reviews |-> <<"Add a TEST here", "", LongComment>>],
     [files |-> <<"src/x.ts", "lib/b.ts">>,
      reviews |-> <<"rename the test folder", "LGTM">>],
     [files |-> <<"docs/x.md">>, reviews |-> <<"test the docs">>],
     [files |-> <<"lib/c.ts">>,
      reviews |-> <<"Jest config", "unit test please", "more Coverage">>]}

InitReview ==
    /\ argv = StandardArgv
    /\ \E prs \in SeqsUpTo(ReviewPrs, MaxPrs) : \E g \in {"ok", "fail"} :
        env = [UnobservedEnv EXCEPT !.git = "repo", !.sibling = "absent",
                                    !.log_state = "fail",
                                    !.gh = g,
                                    !.prs = IF g = "ok" THEN prs ELSE <<>>]
    /\ pc = "pr"
    /\ exit_code = NoExit
    /\ raised = "none"
    /\ config = DefaultConfig
    /\ metrics = analyze_git_history(EmptyDict, EmptyDict,
                                      [state |-> "fail", log |-> <<>>]).metrics
    /\ findings = EmptyDict
    /\ guidelines = NoDoc
    /\ fs = NoFiles
    /\ clock = 0
    /\ runs = 1
    /\ hist = NoHist

NextReview == run_analyze_pr_reviews

SpecReview == InitReview /\ [][NextReview]_vars

ReviewAnalysed == pc = "files"

\* the non-empty comment bodies of the PRs touching the area that match
\* the theme, in processing order
Matching(theme) ==
    SelectSeq(ReviewBodies(RelevantPrs(env.prs)),
              LAMBDA b : \E p \in theme_patterns[theme] : Contains(Lower(b), p))

Samples(theme) == Get(findings, FeedbackKey(theme), <<>>)

Min(a, b) == IF a < b THEN a ELSE b

\* C13: after review analysis completes, for every theme the stored
\* feedback samples are the first min(5, n) non-empty comment bodies that
\* matched the theme (n = the theme's counter), in processing order, each
\* cut to at most 300 characters of the original (non-lowered) text; no
\* theme ever holds more than 5 samples.
C13_FeedbackSamples ==
    /\ \A t \in Themes : Len(Samples(t)) <= 5
    /\ ReviewAnalysed =>
        \A t \in Themes :
            LET n == ThemeCount(findings, t)
            IN /\ n = Len(Matching(t))
               /\ Len(Samples(t)) = Min(5, n)
               /\ \A i \in DOMAIN Samples(t) :
                    /\ Len(Samples(t)[i]) <= 300
                    /\ Samples(t)[i] =
                            SubSeq(Matching(t)[i], 1, Min(300, Len(Matching(t)[i])))

\* more than five comments matched the testing theme, and a sample is the
\* first 300 characters of a longer comment
C13_Witness ==
    /\ ReviewAnalysed
    /\ ThemeCount(findings, "testing") > 5
    /\ Len(Samples("testing")) = 5
    /\ \E i \in DOMAIN Samples("testing") :
            /\ Len(Samples("testing")[i]) = 300
            /\ Len(Matching("testing")[i]) > 300
            /\ Samples("testing")[i] /= Lower(Samples("testing")[i])

(***************************************************************************)
(* The header of the document, checked under Spec.                         *)
(***************************************************************************)
\* the depth labels the "Analysis Period" line of the header shows
HeaderDepthLabels(doc) == DOMAIN doc.period

\* C14: the header of the rendered guidelines document carries the depth
\* label of the run: whatever depth the run is started with, the depth the
\* header names is that one.
C14_HeaderNamesRunDepth ==
    guidelines.tag = "doc" => HeaderDepthLabels(guidelines) = {argv.depth}

(***************************************************************************)
(* The three analyzers in a row (SpecAnalysis): the logs git can answer,   *)
(* followed by the review analysis and the file survey.                    *)
(***************************************************************************)
InitAnalysis ==
    /\ argv = StandardArgv
    /\ \E l \in SeqsUpTo(HistoryLines, MaxCommits) : \E st \in {"ok", "fail"} :
        \E prs \in PipelinePrs : \E t \in PipelineTrees :
            env = [git |-> "repo", sibling |-> "absent",
                   log_state |-> st, log |-> IF st = "ok" THEN l ELSE <<>>,
                   gh |-> "ok", prs |-> prs,
                   tree_state |-> "ok", tree |-> t]
    /\ pc = "git"
    /\ exit_code = NoExit
    /\ raised = "none"
    /\ config = DefaultConfig
    /\ metrics = EmptyDict
    /\ findings = EmptyDict
    /\ guidelines = NoDoc
    /\ fs = NoFiles
    /\ clock = 0
    /\ runs = 1
    /\ hist = NoHist

NextAnalysis ==
    \/ run_analyze_git_history
    \/ run_analyze_pr_reviews
    \/ run_analyze_file_patterns

SpecAnalysis == InitAnalysis /\ [][NextAnalysis]_vars

AfterHistoryAnalysis == pc \in {"pr", "files", "generate"}

\* the non-blank lines git printed
RetrievedEntries == {i \in DOMAIN env.log : env.log[i] /= ""}

\* C15: in every state of a run after history analysis, total_commits is
\* the number of retrieved log entries, every technology counter is between
\* 0 and total_commits and the refactor list has at most total_commits
\* entries; after a retrieval failure total_commits is 0, no technology
\* counter is set and the refactor list is empty.
C15_HistoryMetrics ==
    AfterHistoryAnalysis =>
        LET total == Get(metrics, "total_commits", 0 - 1)
            refactors == Get(findings, "refactor_commits", <<>>)
        IN /\ total = Cardinality(RetrievedEntries)
           /\ \A t \in Techs :
                /\ 0 <= Get(metrics, TechKey(t), 0)
                /\ Get(metrics, TechKey(t), 0) <= total
           /\ Len(refactors) <= total
           /\ env.log_state = "fail" =>
                /\ total = 0
                /\ TechMetrics(metrics) = {}
                /\ refactors = <<>>

\* three lines of output, one of them blank: two entries, both counted for
\* react, and the later analyzers have run
C15_Witness ==
    /\ pc = "generate"
    /\ Len(env.log) = 3
    /\ Get(metrics, "total_commits", 0) = 2
    /\ Get(metrics, "tech_react", 0) = 2
    /\ Get(metrics, "relevant_prs", 0) > 0

(***************************************************************************)
(* The totals of the file survey, checked under SpecFiles.                 *)
(***************************************************************************)
\* C16: after the file survey of any directory tree the naming_conventions
\* bucket counts and the file_types counts each sum to at most total_files:
\* a file classified by name or tallied by extension is one of the counted
\* (non-hidden) regular files.
C16_SurveySumsWithinTotal ==
    Surveyed =>
        /\ OSum(NamingCounts) <= Get(metrics, "total_files", 0)
        /\ OSum(Get(findings, "file_types", <<>>)) <= Get(metrics, "total_files", 0)

====
